---- MODULE Spec2Model ----
(***************************************************************************)
(* A model of drone_makeflow.py: DroneMakeflow.process_message drives the  *)
(* steps of WORKFLOW one after the other.  For each step it builds the     *)
(* step environment, stages the input files, launches the makeflow engine, *)
(* waits for it in a poll/sleep loop, reconciles the experiment metadata,  *)
(* and ingests and publishes the results descriptor (results.json).        *)
(*                                                                         *)
(* Paths are sequences of path components; an absolute path starts with    *)
(* the component "/".  The engine process, its output pipe, the files it   *)
(* writes and the answers of the remote repository are the environment:    *)
(* they are nondeterministic.                                              *)
(***************************************************************************)
EXTENDS Integers, Sequences, FiniteSets, TLC

\* ------------------------------------------------------------------------
\* Constants of the program and bounds of the model

\* drone_makeflow.py:25
PROC_WAIT_SLEEP_SEC == 5

\* drone_makeflow.py:26 is 24 * 60 * 60; the model keeps the loop's structure
\* and scales the total so that the loop runs a few iterations.
PROC_WAIT_TOTAL_SEC == 7

\* How long past the total timeout the clock is followed.
MaxLate == 7

\* How many unread lines the engine's output pipe holds at most.
MaxLines == 1

\* How many keys the top level of a searched mapping has at most.
MaxWidth == 2

\* A value that is not there (Python's None): among strings and paths, and
\* among records
None == "<<None>>"
Nil == [nil |-> TRUE]

\* ------------------------------------------------------------------------
\* Paths (os.path)

Root == "/"

IsAbs(p) == Len(p) > 0 /\ p[1] = Root

\* os.path.join(a, b): an absolute b replaces a
Join(a, b) == IF IsAbs(b) THEN b ELSE a \o b

\* str.lstrip('/\\') of a path: the leading separator goes
LStripSep(p) == IF IsAbs(p) THEN Tail(p) ELSE p

\* str.startswith on paths: b is a prefix of p
StartsWith(p, b) == Len(b) <= Len(p) /\ SubSeq(p, 1, Len(b)) = b

\* os.path.basename
Basename(p) == IF Len(p) = 0 \/ p = <<Root>> THEN "" ELSE p[Len(p)]

\* ------------------------------------------------------------------------
\* WORKFLOW (the fixed list of steps)

WORKFLOW ==
    << [name |-> "OpenDroneMap workflow", makeflow_base |-> "odm_workflow",
        docker_version_number |-> "2.0", force_dataset |-> TRUE,
        dataset_name_template |-> <<"date", "_", "experiment", "_", "name">>],
       [name |-> "Soil Mask workflow", makeflow_base |-> "soil_mask_workflow",
        docker_version_number |-> "2.0", force_dataset |-> FALSE,
        dataset_name_template |-> <<"date", "_", "experiment", "_", "name">>] >>

Steps == 1..Len(WORKFLOW)

\* 'return_code_success': lambda code: int(code) == 0, the same for both steps
return_code_success(step, code) == code = 0

\* ------------------------------------------------------------------------
\* create_env_json

BASE_DIR == <<Root, "mnt">>

\* str.lower() on the file names and keys the model uses
Lower(s) ==
    CASE s = "EXP.YAML" -> "exp.yaml"
      [] s = "Password" -> "password"
      [] s = "Clowder"  -> "clowder"
      [] s = "Username" -> "username"
      [] OTHER -> s

\* str.endswith
EndsWith(s, suffix) ==
    Len(suffix) <= Len(s) /\ SubSeq(s, Len(s) - Len(suffix) + 1, Len(s)) = suffix

\* one_file.lower().endswith('.yaml')
IsYaml(name) == EndsWith(Lower(name), ".yaml")

\* A faulty loop: without the break, the last file with the extension stays
FirstYaml_Last(paths) ==
    LET hits == { i \in 1..Len(paths) : IsYaml(Basename(paths[i])) }
    IN  IF hits = {} THEN None
        ELSE paths[CHOOSE i \in hits : \A j \in hits : j <= i]

\* the first file of local_paths with the extension, or None
RECURSIVE FirstYaml(_)
FirstYaml(paths) ==
    IF paths = <<>> THEN None
    ELSE IF IsYaml(Basename(Head(paths))) THEN Head(paths)
    ELSE FirstYaml(Tail(paths))

\* A faulty line 160: the results file is put under the base folder
results_file_path_base(out_folder) == Join(BASE_DIR, <<"results.json">>)

\* line 160: os.path.join(out_folder, 'results.json')
results_file_path(out_folder) == Join(out_folder, <<"results.json">>)

\* The environment of a step; found_experiment = None raises in the caller.
create_env_json(out_folder, image_subfolder, mount_volume_name, workflow_step, resources) ==
    LET data_folder_name == <<workflow_step.makeflow_base>>
        rel == LStripSep(Join(image_subfolder, data_folder_name))
        found_experiment == FirstYaml(resources.local_paths)
    IN  [ IMAGE_MOUNT_SOURCE |-> mount_volume_name,
          DOCKER_VERSION |-> workflow_step.docker_version_number,
          BASE_DIR |-> BASE_DIR,
          RELATIVE_WORKING_FOLDER |-> rel,
          CACHE_DIR |-> Join(Join(BASE_DIR, rel), <<"cache">>),
          DATA_FOLDER_NAME |-> LStripSep(Join(rel, <<"images">>)),
          EXPERIMENT_METADATA_FILENAME |->
              IF found_experiment = None THEN None ELSE <<Basename(found_experiment)>>,
          RESULTS_FILE_PATH |-> results_file_path(out_folder) ]

NoEnv == [ IMAGE_MOUNT_SOURCE |-> None ]

\* ------------------------------------------------------------------------
\* relocate_files

\* line 184: one_file.endswith(env['EXPERIMENT_METADATA_FILENAME']), a test on
\* the text of the path; the name is a base name, so the test is on the base
\* name of one_file
EndsWithName(one_file, name) ==
    Len(one_file) > 0 /\ EndsWith(Basename(one_file), name[1])

\* os.path.isfile and os.path.isdir: special has the paths that are not plain
\* files, folders ("dir") and paths that are neither ("other")
KindOf(one_file, special) ==
    IF one_file \in DOMAIN special THEN special[one_file] ELSE "file"

\* shutil.copyfile(src, dst)
Copy(src, dst) == [src |-> src, dst |-> dst]

\* lines 183 to 195, the loop over source_list: acc has the copies made and
\* updated_experiment_metadata_path; copyfile raises on a path that is not a
\* plain file, which ends the loop
RECURSIVE RelocateLoop(_, _, _, _, _)
RelocateLoop(e, dest_dir, source_list, special, acc) ==
    IF source_list = <<>> THEN acc
    ELSE LET one_file == Head(source_list)
             updated == Join(Join(e.BASE_DIR, e.RELATIVE_WORKING_FOLDER),
                             <<Basename(one_file)>>)
         IN  IF EndsWithName(one_file, e.EXPERIMENT_METADATA_FILENAME)
             THEN IF KindOf(one_file, special) = "file"
                  THEN RelocateLoop(e, dest_dir, Tail(source_list), special,
                          [acc EXCEPT !.experiment_path = updated,
                                      !.copies = Append(@, Copy(one_file, updated))])
                  ELSE [acc EXCEPT !.raised = TRUE, !.experiment_path = updated]
             ELSE IF KindOf(one_file, special) = "file"
             THEN RelocateLoop(e, dest_dir, Tail(source_list), special,
                     [acc EXCEPT !.copies =
                         Append(@, Copy(one_file, Join(dest_dir, <<Basename(one_file)>>)))])
             ELSE RelocateLoop(e, dest_dir, Tail(source_list), special, acc)

\* the files of a directory as a list of paths (os.listdir, then os.path.join)
RECURSIVE ListDir(_, _)
ListDir(dir, names) ==
    IF names = {} THEN <<>>
    ELSE LET n == CHOOSE x \in names : TRUE
         IN  <<Join(dir, <<n>>)>> \o ListDir(dir, names \ {n})

\* line 198: cache_results.py next to the extractor's own file
ScriptPath == <<Root, "home", "extractor", "cache_results.py">>

\* relocate_files(env, resources): resources is the request's resource dict
\* (kind "resources") or the path of a folder (kind "dir"); anything else and a
\* folder that cannot be listed raise.  dirs has the folders that can be listed
\* and special the paths that are not plain files.  The script is copied last.
relocate_files(e, source, dirs, special) ==
    LET dest_dir == Join(e.BASE_DIR, LStripSep(e.DATA_FOLDER_NAME))
        none == [ raised |-> FALSE, dest_dir |-> dest_dir, experiment_path |-> None,
                  copies |-> <<>> ]
        loop(source_list) ==
            LET done == RelocateLoop(e, dest_dir, source_list, special, none)
            IN  IF done.raised THEN done
                ELSE [done EXCEPT !.copies =
                        Append(@, Copy(ScriptPath,
                                       Join(Join(e.BASE_DIR, e.RELATIVE_WORKING_FOLDER),
                                            <<Basename(ScriptPath)>>)))]
    IN  IF source.kind = "resources" THEN loop(source.local_paths)
        ELSE IF source.kind = "dir" /\ source.path \in DOMAIN dirs
        THEN loop(ListDir(source.path, dirs[source.path]))
        ELSE [none EXCEPT !.raised = TRUE]

\* ------------------------------------------------------------------------
\* The inputs of a request

\* self.args: --named_volume and --working_space; slash tells whether the
\* configured working space ends with a separator
ArgsNoVolume ==
    [named_volume |-> None, working_space |-> [path |-> <<Root, "mnt">>, slash |-> FALSE]]
ArgsNoSpace == [named_volume |-> "testing", working_space |-> Nil]
ArgsMnt ==
    [named_volume |-> "testing", working_space |-> [path |-> <<Root, "mnt">>, slash |-> FALSE]]
ArgsWork ==
    [named_volume |-> "testing", working_space |-> [path |-> <<Root, "work">>, slash |-> TRUE]]

\* resource: the files of the request and its identity in the repository
ResourceDataset ==
    [local_paths |-> << <<Root, "in", "image1.tif">>, <<Root, "in", "exp.yaml">> >>,
     type |-> "dataset", id |-> "ds0", parent |-> Nil]
ResourceNoExperiment ==
    [local_paths |-> << <<Root, "in", "image1.tif">> >>,
     type |-> "dataset", id |-> "ds0", parent |-> Nil]
ResourceFile ==
    [local_paths |-> << <<Root, "in", "image1.tif">>, <<Root, "in", "b.yaml">>,
                        <<Root, "in", "exp.yaml">> >>,
     type |-> "file", id |-> "f0", parent |-> Nil]
ResourceFileInDataset ==
    [local_paths |-> << <<Root, "in", "exp.yaml">>, <<Root, "in", "image1.tif">> >>,
     type |-> "file", id |-> "f1", parent |-> [type |-> "dataset", id |-> "ds-parent"]]

\* tempfile.mkdtemp(dir=working_space): a fresh folder of the working space
TmpName == "tmpjhvq63gh"

\* ------------------------------------------------------------------------
\* The state

VARIABLES
    args,                     \* self.args
    resource,                 \* the resource of the request
    experiment,               \* the content of the experiment file
    pc,                       \* where process_message is
    failure,                  \* the error that ended process_message, or None
    working_folder,           \* the folder mkdtemp made
    working_subfolder,        \* working_folder[len(working_space):]
    step_number,              \* the number of the current step, from 1
    previous_step_cache_dir,  \* CACHE_DIR of the step before
    env,                      \* the environment of the current step
    env_json,                 \* the content of env.json
    returncode,               \* proc.returncode of the current step
    elapsed,                  \* the clock, measured from start_time
    engine,                   \* the engine process of each step
    results_files,            \* the results descriptors on disk, by path
    cache_dirs,               \* the cache folders on disk, by path
    stage_source,             \* for each step, what relocate_files was given
    env_of,                   \* for each step, the environment built for it
    workstep_metadata,        \* the 'password' entry of the workstep metadata
    clowder_info,             \* the credentials found in the experiment file
    experiment_info,          \* the experiment's top-level keys as texts
    ingested,                 \* for each step, the results descriptor loaded
    process_metadata,         \* process_metadata of process_results_json
    uploaded_files,           \* uploaded_files of upload_files, and of
                              \*   process_result_dataset once the call is back
    dataset_result,           \* for each step, what process_result_dataset returned
    step_result,              \* for each step, what process_results_json returned
    pub_todo,                 \* the publisher's calls still to make for the step
    pub_log,                  \* the publisher's calls made, in order
    fd_haystack,              \* a call of find_dict_key on its own: haystack,
    fd_key,                   \*   key,
    fd_insensitive,           \*   case_insensitive,
    fd_run,                   \*   and what the call did, once it has returned
    rq_pc,                    \* concurrent requests: where each is in
                              \*   process_result_dataset,
    rq_info,                  \*   its experiment_info,
    rq_dataset_id,            \*   and its dataset_id
    repository,               \* the datasets of the remote repository
    rl_env,                   \* a call of relocate_files on its own: env,
    rl_resources,             \*   resources,
    rl_files,                 \*   the folders and the paths that are not files,
    rl_return                 \*   and what the call returned or that it raised

\* a call of find_dict_key on its own, which process_message leaves alone
findVars == <<fd_haystack, fd_key, fd_insensitive, fd_run>>
\* concurrent requests and the repository they share, likewise
raceVars == <<rq_pc, rq_info, rq_dataset_id, repository>>
\* a call of relocate_files on its own, likewise
relocateVars == <<rl_env, rl_resources, rl_files, rl_return>>
inputVars == <<args, resource, experiment, findVars, raceVars, relocateVars>>
folderVars == <<working_folder, working_subfolder>>
stepVars == <<step_number, previous_step_cache_dir, env, env_json, stage_source, env_of>>
worldVars == <<elapsed, engine, results_files, cache_dirs>>
mdVars == <<workstep_metadata, clowder_info, experiment_info>>
pubVars == <<ingested, process_metadata, uploaded_files, dataset_result, step_result,
             pub_todo, pub_log>>

NoProc == [state |-> "none", stdout_open |-> FALSE, lines |-> 0, code |-> 0,
           in_time |-> FALSE]

NoCredentials == [space |-> None, username |-> None, password |-> None]

\* The statements of the wait loop (lines 664 to 690)
WaitPcs == {"while_cond", "loop_body", "readline", "poll", "sleep", "time_check"}

\* process_message ended: by an error or by end_message
Ended == pc \in {"error", "done"}

Raise(kind) == pc' = "error" /\ failure' = kind

\* ------------------------------------------------------------------------
\* process_message, lines 594 to 613: the configuration and the working folder

\* A named volume is taken as given, whatever the arguments have
NoNamedVolume_Never(a) == FALSE

\* line 598: not self.args.named_volume
NoNamedVolume(a) == a.named_volume = None

\* lines 603 and 611: self.args.working_space is not set
NoWorkingSpace(a) == a.working_space = Nil

Start ==
    /\ pc = "start"
    /\ IF NoNamedVolume(args)
       THEN Raise("configuration") /\ UNCHANGED folderVars
       ELSE IF NoWorkingSpace(args)
       THEN Raise("configuration") /\ UNCHANGED folderVars
       ELSE /\ working_folder' = Join(args.working_space.path, <<TmpName>>)
            /\ working_subfolder' =
                   IF args.working_space.slash THEN <<TmpName>> ELSE <<Root, TmpName>>
            /\ pc' = "for_step"
            /\ UNCHANGED failure
    /\ UNCHANGED <<mdVars, pubVars, inputVars, stepVars, returncode, worldVars>>

\* ------------------------------------------------------------------------
\* process_message, lines 619 to 627: the next step of WORKFLOW and its
\* environment; after the last step, end_message (line 736)

\* What is kept of the engine of a step once process_message has moved on to
\* the next step: whether it is still running
Left(proc) == [NoProc EXCEPT !.state = proc.state, !.stdout_open = proc.stdout_open]

\* workstep_metadata, clowder_info and experiment_info are made anew in each
\* iteration (lines 695, 696 and 703)
ForStep ==
    /\ pc = "for_step"
    /\ IF step_number = Len(WORKFLOW)
       THEN /\ pc' = "done"
            /\ UNCHANGED <<failure, stepVars, mdVars, engine>>
       ELSE LET n == step_number + 1
                e == create_env_json(working_folder, working_subfolder,
                                     args.named_volume, WORKFLOW[n], resource)
            IN  /\ step_number' = n
                /\ previous_step_cache_dir' =
                       IF env # NoEnv THEN env.CACHE_DIR ELSE previous_step_cache_dir
                /\ IF e.EXPERIMENT_METADATA_FILENAME = None
                   THEN Raise("missing_input") /\ UNCHANGED <<env, env_of>>
                   ELSE /\ env' = e
                        /\ env_of' = [env_of EXCEPT ![n] = e]
                        /\ pc' = "stage"
                        /\ UNCHANGED failure
                /\ workstep_metadata' = [password |-> None]
                /\ clowder_info' = NoCredentials
                /\ experiment_info' = << >>
                /\ engine' = [s \in Steps |-> IF s < n THEN Left(engine[s]) ELSE engine[s]]
                /\ UNCHANGED <<env_json, stage_source>>
    /\ UNCHANGED <<pubVars, inputVars, folderVars, returncode, elapsed,
                   results_files, cache_dirs>>

\* ------------------------------------------------------------------------
\* process_message, lines 634 to 652: staging and env.json

NoSource == [kind |-> "none"]

\* A faulty hand-off: the cache folder is taken from the environment that was
\* just built for the current step
StagingSource_OwnCache ==
    IF step_number <= 1
    THEN [kind |-> "resources", local_paths |-> resource.local_paths]
    ELSE [kind |-> "dir", path |-> env.CACHE_DIR]

\* the staging source of the current step: the resources of the request for
\* the first step, the cache folder of the step before for the others
StagingSource ==
    IF step_number <= 1
    THEN [kind |-> "resources", local_paths |-> resource.local_paths]
    ELSE [kind |-> "dir", path |-> previous_step_cache_dir]

Stage ==
    /\ pc = "stage"
    /\ LET r == relocate_files(env, StagingSource, cache_dirs, << >>)
       IN  /\ stage_source' = [stage_source EXCEPT ![step_number] = StagingSource]
           /\ IF r.raised \/ r.experiment_path = None
              THEN Raise("staging") /\ UNCHANGED <<env, env_json>>
              ELSE /\ env' = IF StartsWith(r.experiment_path, env.BASE_DIR)
                             THEN [env EXCEPT !.EXPERIMENT_METADATA_FILENAME =
                                      SubSeq(r.experiment_path, Len(env.BASE_DIR) + 1,
                                             Len(r.experiment_path))]
                             ELSE env
                   /\ env_json' = env'
                   /\ pc' = "launch"
                   /\ UNCHANGED failure
    /\ env_of' = [env_of EXCEPT ![step_number] = env']
    /\ UNCHANGED <<step_number, previous_step_cache_dir>>
    /\ UNCHANGED <<mdVars, pubVars, inputVars, folderVars, returncode, worldVars>>

\* ------------------------------------------------------------------------
\* process_message, lines 655 to 663: the engine is launched

Launch ==
    /\ pc = "launch"
    /\ engine' = [engine EXCEPT ![step_number] =
                     [state |-> "running", stdout_open |-> TRUE, lines |-> 0,
                      code |-> 0, in_time |-> FALSE]]
    /\ returncode' = Nil
    /\ elapsed' = 0
    /\ pc' = "while_cond"
    /\ UNCHANGED <<failure, mdVars, pubVars, inputVars, folderVars, stepVars, results_files, cache_dirs>>

\* ------------------------------------------------------------------------
\* process_message, lines 664 to 690: the wait loop

\* line 664: the clock is read again, no earlier than the read before it, and
\* the loop goes on while the elapsed time is within the total; otherwise the
\* loop is over and the statements after it run
WhileCond ==
    /\ pc = "while_cond"
    /\ \E d \in {0, 1} :
          /\ elapsed' = elapsed + d
          /\ pc' = IF elapsed' <= PROC_WAIT_TOTAL_SEC THEN "loop_body" ELSE "reconcile"
    /\ UNCHANGED <<failure, mdVars, pubVars, inputVars, folderVars, stepVars, returncode,
                   engine, results_files, cache_dirs>>

\* lines 665 and 679 to 682: a process with a return code ends the loop (break)
LoopBody ==
    /\ pc = "loop_body"
    /\ pc' = IF returncode = Nil THEN "readline" ELSE "reconcile"
    /\ UNCHANGED <<failure, mdVars, pubVars, inputVars, folderVars, stepVars, returncode, worldVars>>

\* lines 669 to 672: readline returns a line of the engine's output, which is
\* logged, and the inner loop reads on
Readline ==
    /\ pc = "readline"
    /\ engine[step_number].lines > 0
    /\ engine' = [engine EXCEPT ![step_number].lines = @ - 1]
    /\ UNCHANGED <<pc, failure, mdVars, pubVars, inputVars, folderVars, stepVars, returncode,
                   elapsed, results_files, cache_dirs>>

\* lines 673 and 674: readline returns nothing, which it does only at the end
\* of the stream (the engine has closed its output), and the inner loop ends
ReadlineEOF ==
    /\ pc = "readline"
    /\ engine[step_number].lines = 0
    /\ ~engine[step_number].stdout_open
    /\ pc' = "poll"
    /\ UNCHANGED <<failure, mdVars, pubVars, inputVars, folderVars, stepVars, returncode, worldVars>>

\* lines 675 and 676: an exception while reading is logged and ignored
ReadlineError ==
    /\ pc = "readline"
    /\ pc' = "poll"
    /\ UNCHANGED <<failure, mdVars, pubVars, inputVars, folderVars, stepVars, returncode, worldVars>>

\* time passes while readline waits for a line or for the end of the stream
Tick ==
    /\ pc = "readline"
    /\ engine[step_number].lines = 0
    /\ engine[step_number].stdout_open
    /\ elapsed < PROC_WAIT_TOTAL_SEC + MaxLate
    /\ elapsed' = elapsed + 1
    /\ UNCHANGED <<pc, failure, mdVars, pubVars, inputVars, folderVars, stepVars, returncode,
                   engine, results_files, cache_dirs>>

\* line 677: proc.poll() sets the return code of a process that has exited;
\* in_time notes whether the poll saw the exit within the total timeout
Poll ==
    /\ pc = "poll"
    /\ returncode' = IF engine[step_number].state = "exited"
                     THEN [code |-> engine[step_number].code,
                           in_time |-> elapsed <= PROC_WAIT_TOTAL_SEC]
                     ELSE Nil
    /\ pc' = "sleep"
    /\ UNCHANGED <<failure, mdVars, pubVars, inputVars, folderVars, stepVars, worldVars>>

\* line 678
Sleep ==
    /\ pc = "sleep"
    /\ elapsed' = elapsed + PROC_WAIT_SLEEP_SEC
    /\ pc' = "time_check"
    /\ UNCHANGED <<failure, mdVars, pubVars, inputVars, folderVars, stepVars, returncode,
                   engine, results_files, cache_dirs>>

\* lines 684 to 690: past the total the request fails
TimeCheck ==
    /\ pc = "time_check"
    /\ IF elapsed > PROC_WAIT_TOTAL_SEC
       THEN Raise("timeout")
       ELSE pc' = "while_cond" /\ UNCHANGED failure
    /\ UNCHANGED <<mdVars, pubVars, inputVars, folderVars, stepVars, returncode, worldVars>>

\* ------------------------------------------------------------------------
\* The engine (makeflow) of a step: an OS process of its own.  It writes lines
\* to its output pipe, leaves a cache folder and a results descriptor or not,
\* closes its output and exits with a code.  An engine is followed from its
\* launch until process_message has looked for its results file.

\* A file entry of a results descriptor: its path and key, and its metadata
\* block, if any, with the block's 'replace' entry ("absent", "true", "false")
\* and with or without a 'data' entry; the data of FileC is JSON-LD already
FileA == [path |-> "ortho.tif", key |-> "ortho", metadata |-> Nil]
FileB == [path |-> "mask.tif", key |-> "mask", metadata |-> [replace |-> "absent"]]
FileC == [path |-> "plots.csv", key |-> "plots",
          metadata |-> [replace |-> "false",
                        data |-> ("@context" :> "http://schema.org") @@ [rows |-> "12"]]]
FileD == [path |-> "soil.tif", key |-> "soil",
          metadata |-> [replace |-> "true", data |-> [soil |-> "loam"]]]

\* The results descriptors an engine may write: results.json as json.load
\* returns it.  Absent keys are None (lists) or Nil (mappings); extra holds
\* the other keys of the file with their values, 'error' and 'message' among
\* them; valid = FALSE is a file that is not JSON.
ResultsSet ==
    { [valid |-> TRUE, code |-> 0,
       container |-> [file |-> <<FileA>>, files |-> <<FileB>>,
                      metadata |-> [replace |-> "absent"]],
       file |-> None, files |-> None,
       extra |-> ("note" :> "n1") @@ ("message" :> "done")],
      [valid |-> TRUE, code |-> 0,
       container |-> Nil, file |-> <<FileC>>, files |-> <<FileD>>,
       extra |-> ("error" :> "none") @@ ("gsd" :> "2cm")],
      [valid |-> TRUE, code |-> 1,
       container |-> [file |-> <<FileA>>, files |-> None, metadata |-> Nil],
       file |-> None, files |-> <<FileB>>, extra |-> << >>],
      [valid |-> FALSE, code |-> 0,
       container |-> Nil, file |-> None, files |-> None, extra |-> << >>] }

\* What the engine of step s may leave in its cache folder: no folder, or a
\* folder of output files with or without the experiment file
CacheChoices(s) ==
    { [exists |-> FALSE, names |-> {}],
      [exists |-> TRUE, names |-> {"ortho.tif"}],
      [exists |-> TRUE,
       names |-> {"ortho.tif", Basename(env_of[s].EXPERIMENT_METADATA_FILENAME)}] }

Followed(s) ==
    s = step_number /\ pc \in WaitPcs \cup {"reconcile", "load_results"}

EngineEmit(s) ==
    /\ Followed(s)
    /\ engine[s].state = "running"
    /\ engine[s].lines < MaxLines
    /\ engine' = [engine EXCEPT ![s].lines = @ + 1]
    /\ UNCHANGED <<pc, failure, mdVars, pubVars, inputVars, folderVars, stepVars, returncode,
                   elapsed, results_files, cache_dirs>>

\* the engine writes what it leaves behind and closes its output
EngineFinish(s) ==
    /\ Followed(s)
    /\ engine[s].state = "running"
    /\ engine' = [engine EXCEPT ![s].state = "finishing", ![s].stdout_open = FALSE]
    /\ \E d \in ResultsSet \cup {Nil} :
          results_files' =
              IF d = Nil THEN results_files
              ELSE (env_of[s].RESULTS_FILE_PATH :> [producer |-> s, content |-> d])
                   @@ results_files
    /\ \E c \in CacheChoices(s) :
          cache_dirs' =
              IF ~c.exists THEN cache_dirs
              ELSE (env_of[s].CACHE_DIR :> c.names) @@ cache_dirs
    /\ UNCHANGED <<pc, failure, mdVars, pubVars, inputVars, folderVars, stepVars, returncode, elapsed>>

\* the engine exits; in_time tells whether it did within the total timeout of
\* the wait for it
EngineExit(s) ==
    /\ Followed(s)
    /\ engine[s].state = "finishing"
    /\ \E c \in {0, 1} :
          engine' = [engine EXCEPT ![s].state = "exited", ![s].code = c,
                        ![s].in_time = (s = step_number /\ pc \in WaitPcs
                                        /\ elapsed <= PROC_WAIT_TOTAL_SEC)]
    /\ UNCHANGED <<pc, failure, mdVars, pubVars, inputVars, folderVars, stepVars, returncode,
                   elapsed, results_files, cache_dirs>>

\* ------------------------------------------------------------------------
\* The experiment file and the search for the Clowder credentials.  A mapping
\* is the sequence of its (key, value) pairs in order; a value is a text
\* [t |-> "s", text |-> text] or a mapping [t |-> "d", v |-> mapping].

Txt(v) == [t |-> "s", text |-> v]
Map(m) == [t |-> "d", v |-> m]

\* A faulty scan of a level: the keys after the first nested mapping are not
\* looked at before that mapping is searched
ScanLevel_StopAtDict(haystack, check_key, case_insensitive) ==
    LET Matches(one_key) ==
            one_key = check_key \/ (case_insensitive /\ Lower(one_key) = check_key)
        IsDict(pair) == pair[2].t = "d"
        dicts == SelectSeq(haystack, IsDict)
        before == { i \in 1..Len(haystack) : \A j \in 1..i : ~IsDict(haystack[j]) }
        hits == { i \in before : Matches(haystack[i][1]) }
    IN  [hit |-> IF hits = {} THEN Nil
                 ELSE LET first == CHOOSE i \in hits : \A j \in hits : i <= j
                      IN  [key |-> haystack[first][1], value |-> haystack[first][2]],
         dict_checks |-> [ i \in 1..Len(dicts) |-> dicts[i][2].v ]]

\* lines 535 to 540: the keys of one level in order; the first that matches
\* is returned, and until then the nested mappings are noted in dict_checks
ScanLevel(haystack, check_key, case_insensitive) ==
    LET Matches(one_key) ==
            one_key = check_key \/ (case_insensitive /\ Lower(one_key) = check_key)
        hits == { i \in 1..Len(haystack) : Matches(haystack[i][1]) }
        IsDict(pair) == pair[2].t = "d"
        dicts == SelectSeq(haystack, IsDict)
    IN  [hit |-> IF hits = {} THEN Nil
                 ELSE LET first == CHOOSE i \in hits : \A j \in hits : i <= j
                      IN  [key |-> haystack[first][1], value |-> haystack[first][2]],
         dict_checks |-> [ i \in 1..Len(dicts) |-> dicts[i][2].v ]]

\* line 542: case_insensitive of the nested calls, False
NestedInsensitive(case_insensitive) == FALSE

RECURSIVE find_dict_key_run(_, _, _)
RECURSIVE FindInDicts(_, _, _)

\* lines 541 to 544: the nested mappings in order, each searched for
\* check_key by a call of its own; visited are the mappings searched
FindInDicts(dict_checks, check_key, case_insensitive) ==
    IF dict_checks = <<>> THEN [found |-> Nil, visited |-> <<>>]
    ELSE LET one == find_dict_key_run(Head(dict_checks), check_key,
                                      NestedInsensitive(case_insensitive))
         IN  IF one.found # Nil
             THEN [found |-> one.found, visited |-> <<Head(dict_checks)>> \o one.visited]
             ELSE LET rest == FindInDicts(Tail(dict_checks), check_key, case_insensitive)
                  IN  [found |-> rest.found,
                       visited |-> <<Head(dict_checks)>> \o one.visited \o rest.visited]

\* find_dict_key(haystack, key, case_insensitive) as it runs: the pair found,
\* or Nil, and the nested mappings it went into
find_dict_key_run(haystack, key, case_insensitive) ==
    LET check_key == IF case_insensitive THEN Lower(key) ELSE key
        level == ScanLevel(haystack, check_key, case_insensitive)
    IN  IF level.hit # Nil
        THEN [found |-> level.hit, visited |-> <<>>]
        ELSE FindInDicts(level.dict_checks, check_key, case_insensitive)

\* find_dict_key(haystack, key, case_insensitive): the pair found, or Nil
find_dict_key(haystack, key, case_insensitive) ==
    find_dict_key_run(haystack, key, case_insensitive).found

\* A faulty secure_string: the secured text goes out without its prefix
secure_string_bare(encrypted) ==
    IF encrypted # None THEN encrypted ELSE "<removed>"

\* secure_string(plain_text), given what encrypt_pipeline_string returned for
\* it: the secured text, or None
secure_string(encrypted) ==
    IF encrypted # None THEN "secured:" \o encrypted ELSE "<removed>"

\* What encrypt_pipeline_string may return: None, or a token
EncryptedSet == {None, "gAAAAABf3"}

\* The experiment files of the model
ExperimentFull ==
    << <<"date", Txt("2020-01-01")>>, <<"experiment", Txt("trial1")>>,
       <<"name", Txt("field7")>>,
       <<"clowder", Map(<< <<"username", Txt("u")>>, <<"password", Txt("p")>> >>)>> >>
ExperimentRemoved ==
    << <<"date", Txt("2020-01-01")>>, <<"experiment", Txt("trial1")>>,
       <<"Clowder", Map(<< <<"space", Txt("sp")>>, <<"Password", Txt("<removed>")>> >>)>> >>
ExperimentNoPassword ==
    << <<"date", Txt("2020-01-01")>>, <<"experiment", Txt("trial1")>>,
       <<"name", Txt("field7")>>,
       <<"site", Map(<< <<"clowder", Map(<< <<"space", Txt("sp")>> >>)>> >>)>> >>
\* lines 703 to 706: the top-level keys with the text of their values; a
\* mapping's text is not followed
experiment_info_of(tree) ==
    IF tree = << >> THEN << >>
    ELSE LET keys == { tree[i][1] : i \in 1..Len(tree) }
             Last(k) == CHOOSE i \in 1..Len(tree) :
                            tree[i][1] = k /\ \A j \in 1..Len(tree) : tree[j][1] = k => j <= i
         IN  [ k \in keys |-> IF tree[Last(k)][2].t = "s" THEN tree[Last(k)][2].text ELSE "{...}" ]

\* ------------------------------------------------------------------------
\* process_message, lines 692 to 721: the experiment file is loaded and the
\* credentials of its clowder section go to clowder_info and, one over the
\* other, to the 'password' entry of the workstep metadata.  The clock is not
\* read after the wait loop, and is no longer followed.

TextOf(found) == IF found.value.t = "s" THEN found.value.text ELSE "{...}"

\* A faulty order of writing: what is written first stays
password_entry_first_wins(space, username, password, encrypted) ==
    IF space # Nil THEN TextOf(space)
    ELSE IF username # Nil THEN TextOf(username)
    ELSE IF password # Nil THEN secure_string(encrypted)
    ELSE None

\* lines 713 to 721: workstep_metadata['password'] after the three writes, of
\* the space, of the username and of the secured password, each made if its key
\* was found; None when none was
password_entry(space, username, password, encrypted) ==
    LET after_space == IF space # Nil THEN TextOf(space) ELSE None
        after_username == IF username # Nil THEN TextOf(username) ELSE after_space
    IN  IF password # Nil THEN secure_string(encrypted) ELSE after_username

Reconcile ==
    /\ pc = "reconcile"
    /\ experiment_info' = experiment_info_of(experiment)
    /\ LET clowder_md == IF experiment = << >> THEN Nil
                         ELSE find_dict_key(experiment, "clowder", TRUE)
       IN  IF clowder_md = Nil
           THEN /\ clowder_info' = NoCredentials
                /\ workstep_metadata' = [password |-> None]
                /\ pc' = "load_results"
                /\ UNCHANGED failure
           ELSE IF clowder_md.value.t # "d"
           THEN Raise("metadata") /\ UNCHANGED <<clowder_info, workstep_metadata>>
           ELSE LET space == find_dict_key(clowder_md.value.v, "space", TRUE)
                    username == find_dict_key(clowder_md.value.v, "username", TRUE)
                    password == find_dict_key(clowder_md.value.v, "password", TRUE)
                IN  /\ clowder_info' =
                           [space |-> IF space # Nil THEN TextOf(space) ELSE None,
                            username |-> IF username # Nil THEN TextOf(username) ELSE None,
                            password |-> IF password # Nil THEN TextOf(password) ELSE None]
                    /\ \E encrypted \in EncryptedSet :
                          workstep_metadata' =
                              [password |-> password_entry(space, username, password,
                                                           encrypted)]
                    /\ pc' = "load_results"
                    /\ UNCHANGED failure
    /\ elapsed' = 0
    /\ UNCHANGED <<pubVars, inputVars, folderVars, stepVars, returncode,
                   engine, results_files, cache_dirs>>

\* ------------------------------------------------------------------------
\* The publisher: the calls to the repository that process_results_json and
\* the functions under it make, one action per call.  pub_todo holds the calls
\* still to come, in the order of the code; pub_log the calls made.

\* str.format(**experiment_info) of a template: a sequence of field names and
\* of the literal "_"; None when a field is missing (KeyError)
RECURSIVE Format(_, _)
Format(template, info) ==
    IF template = <<>> THEN ""
    ELSE LET rest == Format(Tail(template), info)
             part == Head(template)
         IN  IF rest = None THEN None
             ELSE IF part = "_" THEN part \o rest
             ELSE IF part \in DOMAIN info THEN info[part] \o rest
             ELSE None

DefaultTemplate == <<"name", "_", "date", "_", "experiment">>

\* lines 429 to 433
dataset_name_of(workflow_step, info) ==
    IF workflow_step.dataset_name_template # None
    THEN Format(workflow_step.dataset_name_template, info)
    ELSE Format(DefaultTemplate, info)

\* upload_files, lines 332 to 334: the upload calls of a list of file entries
\* into a dataset; the first of them starts with an empty uploaded_files
Uploads(entries, dataset_id) ==
    IF entries = None THEN <<>>
    ELSE [ i \in 1..Len(entries) |->
             [op |-> "upload", entry |-> entries[i], dataset_id |-> dataset_id,
              first |-> i = 1] ]

\* A faulty default: existing metadata is replaced only when the block says so
ReplaceOf_OnlyIfTold(metadata) == metadata.replace = "true"

\* replace_metadata of a metadata block (lines 345 to 347 and 451 to 456):
\* True unless the block has a falsy 'replace' entry
ReplaceOf(metadata) == metadata.replace # "false"

\* the host of the request, as process_message is given it (line 580)
Host == "https://clowder.test"

\* lines 348 to 351 and 457 to 460: the 'data' entry of a block, or the block
working_metadata_of(block) == IF "data" \in DOMAIN block THEN block.data ELSE block

\* A faulty prepare_metadata: the target is taken for a dataset always
prepare_metadata_as_dataset(host, version, creator_name, metadata, target_id, target_is_dataset) ==
    IF "@context" \in DOMAIN metadata THEN metadata
    ELSE ("@context" :> <<"https://clowder.ncsa.illinois.edu/contexts/metadata.jsonld">>)
         @@ [content |-> metadata,
             agent |-> ("@type" :> "cat:extractor")
                       @@ [extractor_id |-> host \o (IF EndsWith(host, "/") THEN "" ELSE "/")
                                                \o "api/extractors/" \o creator_name,
                           version |-> version,
                           name |-> creator_name],
             dataset_id |-> target_id]

\* prepare_metadata, lines 81 to 103
prepare_metadata(host, version, creator_name, metadata, target_id, target_is_dataset) ==
    IF "@context" \in DOMAIN metadata THEN metadata
    ELSE ("@context" :> <<"https://clowder.ncsa.illinois.edu/contexts/metadata.jsonld">>)
         @@ [content |-> metadata,
             agent |-> ("@type" :> "cat:extractor")
                       @@ [extractor_id |-> host \o (IF EndsWith(host, "/") THEN "" ELSE "/")
                                                \o "api/extractors/" \o creator_name,
                           version |-> version,
                           name |-> creator_name]]
         @@ (IF target_is_dataset THEN [dataset_id |-> target_id]
             ELSE [file_id |-> target_id])

\* workflow_step['makeflow_file']
makeflow_file(workflow_step) == workflow_step.makeflow_base \o ".jx"

\* lines 353 to 355, 461 to 463 and 466 to 468: the metadata as it is sent for
\* a target, in the current step
Prepared(metadata, target_id, target_is_dataset) ==
    prepare_metadata(Host, WORKFLOW[step_number].docker_version_number,
                     makeflow_file(WORKFLOW[step_number]), metadata,
                     target_id, target_is_dataset)

\* lines 444 to 472: what process_result_dataset does once it has the dataset:
\* the uploads of 'file' and of 'files', then update_dataset_metadata (lines
\* 293 to 310)
DatasetCalls(container, dataset_id, created_dataset, process_md) ==
    Uploads(container.file, dataset_id) \o Uploads(container.files, dataset_id)
    \o (IF container.metadata # Nil /\ ReplaceOf(container.metadata)
        THEN << [op |-> "remove_dataset_metadata", dataset_id |-> dataset_id] >> ELSE <<>>)
    \o (IF container.metadata # Nil
        THEN << [op |-> "upload_dataset_metadata", dataset_id |-> dataset_id,
                 content |-> "container",
                 payload |-> Prepared(working_metadata_of(container.metadata),
                                      dataset_id, TRUE)] >> ELSE <<>>)
    \o (IF DOMAIN process_md # {}
        THEN << [op |-> "upload_dataset_metadata", dataset_id |-> dataset_id,
                 content |-> "process",
                 payload |-> Prepared(process_md, dataset_id, TRUE)] >> ELSE <<>>)
    \o << [op |-> "return_dataset", dataset_id |-> dataset_id, created |-> created_dataset] >>

\* lines 342 to 357 and update_file_metadata: the metadata calls for an
\* uploaded file
FileMetadataCalls(entry, file_id) ==
    IF entry.metadata = Nil THEN <<>>
    ELSE (IF ReplaceOf(entry.metadata)
          THEN << [op |-> "delete_file_metadata", file_id |-> file_id] >> ELSE <<>>)
         \o << [op |-> "upload_file_metadata", file_id |-> file_id,
                 payload |-> Prepared(working_metadata_of(entry.metadata),
                                      file_id, FALSE)] >>

\* proc_results.keys() and proc_results[one_key] of a descriptor
KeysOf(d) ==
    {"code"} \cup (IF d.container # Nil THEN {"container"} ELSE {})
             \cup (IF d.file # None THEN {"file"} ELSE {})
             \cup (IF d.files # None THEN {"files"} ELSE {})
             \cup DOMAIN d.extra

\* A faulty line 497: 'error' and 'message' are not taken out
ReservedKeys_Short == {"container", "file", "files", "code"}

\* line 497: the keys that are not metadata of the process
ReservedKeys == {"container", "file", "files", "code", "error", "message"}

\* lines 497 to 502: the process metadata of a descriptor
process_metadata_of(d) ==
    LET process_metadata_keys == KeysOf(d) \ ReservedKeys
    IN  [ one_key \in process_metadata_keys |-> d.extra[one_key] ]

\* lines 504 to 513: the calls of process_results_json for a descriptor
ResultCalls(d) ==
    (IF d.container # Nil
     THEN << [op |-> "dataset", container |-> d.container,
              process_metadata |-> process_metadata_of(d)] >>
     ELSE <<>>)
    \o (IF d.file # None THEN << [op |-> "result_file", entries |-> d.file] >> ELSE <<>>)
    \o (IF d.files # None THEN << [op |-> "result_file", entries |-> d.files] >> ELSE <<>>)

\* A faulty line 492: the code is not looked at
Accepted_Unchecked(workflow_step, proc_results) == TRUE

\* line 492: the step's predicate applied to the code of the descriptor
Accepted(workflow_step, proc_results) ==
    return_code_success(workflow_step, proc_results.code)

\* a call to the repository and its answer: an id, "ok", or what went wrong
Logged(op, target, answer) ==
    Append(pub_log, [step |-> step_number, op |-> op, target |-> target, answer |-> answer])

\* an upload of metadata, with the metadata sent
LoggedPayload(op, target, answer, payload) ==
    Append(pub_log, [step |-> step_number, op |-> op, target |-> target, answer |-> answer,
                     payload |-> payload])

\* ------------------------------------------------------------------------
\* process_message, lines 723 to 733, and process_results_json, lines 491 to
\* 502: the results file is loaded and the step's predicate applied to its
\* code.  What process_results_json returns is not looked at (line 728).

LoadResults ==
    /\ pc = "load_results"
    /\ IF env.RESULTS_FILE_PATH \notin DOMAIN results_files
       THEN Raise("no_results") /\ UNCHANGED pubVars
       ELSE LET f == results_files[env.RESULTS_FILE_PATH]
                proc_results == f.content
            IN  IF ~proc_results.valid
                THEN Raise("result_parse") /\ UNCHANGED pubVars
                ELSE /\ ingested' = [ingested EXCEPT ![step_number] = f]
                     /\ UNCHANGED <<failure, pub_log>>
                     /\ IF ~Accepted(WORKFLOW[step_number], proc_results)
                        THEN /\ step_result' = [step_result EXCEPT ![step_number] = "false"]
                             /\ pub_todo' = <<>>
                             /\ pc' = "for_step"
                             /\ UNCHANGED <<process_metadata, uploaded_files, dataset_result>>
                        ELSE /\ step_result' = step_result
                             /\ process_metadata' = process_metadata_of(proc_results)
                             /\ UNCHANGED <<uploaded_files, dataset_result>>
                             /\ pub_todo' = ResultCalls(proc_results)
                             /\ pc' = "publish"
    /\ UNCHANGED <<mdVars, inputVars, folderVars, stepVars, returncode, worldVars>>

Publishing(op) == pc = "publish" /\ pub_todo # <<>> /\ Head(pub_todo).op = op

PubBase == UNCHANGED <<mdVars, ingested, process_metadata, inputVars, folderVars, stepVars, returncode, worldVars>>

PubSame == PubBase /\ UNCHANGED <<uploaded_files, dataset_result>>

\* process_result_dataset, lines 429 to 438: the name of the dataset and the
\* lookup by name, which finds a dataset or none
\* A faulty line 438: a dataset is created whatever the lookup found
NeedsCreate_Always(dataset_id) == TRUE

\* line 438
NeedsCreate(dataset_id) == dataset_id = None

PubLookup ==
    /\ Publishing("dataset")
    /\ LET call == Head(pub_todo)
           dataset_name == dataset_name_of(WORKFLOW[step_number], experiment_info)
       IN  IF dataset_name = None
           THEN Raise("publish") /\ UNCHANGED <<step_result, pub_todo, pub_log>>
           ELSE \E dataset_id \in {None, "ds-found"} :
                   /\ pub_log' = Logged("lookup", dataset_name, dataset_id)
                   /\ pub_todo' =
                          IF NeedsCreate(dataset_id)
                          THEN << [op |-> "create", dataset_name |-> dataset_name,
                                   container |-> call.container,
                                   process_metadata |-> call.process_metadata] >>
                               \o Tail(pub_todo)
                          ELSE DatasetCalls(call.container, dataset_id, FALSE,
                                            call.process_metadata)
                               \o Tail(pub_todo)
                   /\ UNCHANGED <<pc, failure, step_result>>
    /\ PubSame

\* lines 439 to 442 and create_dataset: the answer has an id, or the call
\* fails (raise_for_status, line 233) or its answer has no id (line 238)
PubCreate ==
    /\ Publishing("create")
    /\ LET call == Head(pub_todo)
       IN  \E answer \in {"http_error", "no_id", "ds-created"} :
              /\ pub_log' = Logged("create", call.dataset_name, answer)
              /\ IF answer \in {"http_error", "no_id"}
                 THEN Raise("publish") /\ UNCHANGED <<step_result, pub_todo>>
                 ELSE /\ pub_todo' = DatasetCalls(call.container, answer, TRUE,
                                                  call.process_metadata) \o Tail(pub_todo)
                      /\ UNCHANGED <<pc, failure, step_result>>
    /\ PubSame

\* A faulty line 336: an upload without an id is let through
UploadFailed_Never(file_id) == FALSE

\* line 336
UploadFailed(file_id) == file_id = None

\* line 360: the entry of an uploaded file in uploaded_files
Uploaded(entry, file_id) == [path |-> entry.path, key |-> entry.key, id |-> file_id]

\* upload_files, lines 332 to 360: one file; no id is an error.  The entry of
\* the file is appended after its metadata calls (line 360), which change
\* neither the list nor the flow; the list of the call replaces that of the
\* caller when the call returns (line 447).
PubUpload ==
    /\ Publishing("upload")
    /\ LET call == Head(pub_todo)
       IN  \E file_id \in {None, "id-" \o call.entry.key} :
              /\ pub_log' = Logged("upload", <<call.dataset_id, call.entry.path>>, file_id)
              /\ IF UploadFailed(file_id)
                 THEN Raise("publish") /\ UNCHANGED <<step_result, pub_todo, uploaded_files>>
                 ELSE /\ pub_todo' = FileMetadataCalls(call.entry, file_id) \o Tail(pub_todo)
                      /\ uploaded_files' =
                             Append(IF call.first THEN <<>> ELSE uploaded_files,
                                    Uploaded(call.entry, file_id))
                      /\ UNCHANGED <<pc, failure, step_result>>
    /\ PubBase
    /\ UNCHANGED dataset_result

\* update_file_metadata, lines 258 to 262: a failed delete is caught, and the
\* upload of the metadata that follows it in the try block is skipped
PubDeleteFileMetadata ==
    /\ Publishing("delete_file_metadata")
    /\ \E ok \in BOOLEAN :
          /\ pub_log' = Logged("delete_file_metadata", Head(pub_todo).file_id,
                               IF ok THEN "ok" ELSE "failed")
          /\ pub_todo' = IF ok THEN Tail(pub_todo) ELSE Tail(Tail(pub_todo))
    /\ UNCHANGED <<pc, failure, step_result>>
    /\ PubSame

\* update_file_metadata, lines 271 to 275: a failure is caught and logged
PubUploadFileMetadata ==
    /\ Publishing("upload_file_metadata")
    /\ \E answer \in {"ok", "failed"} :
          pub_log' = LoggedPayload("upload_file_metadata", Head(pub_todo).file_id, answer,
                                   Head(pub_todo).payload)
    /\ pub_todo' = Tail(pub_todo)
    /\ UNCHANGED <<pc, failure, step_result>>
    /\ PubSame

\* update_dataset_metadata, lines 293 to 310: nothing catches a failure, here
\* or in its callers (lines 471, 506 and 728), and the request ends by it
PubDatasetMetadata ==
    /\ \/ Publishing("remove_dataset_metadata")
       \/ Publishing("upload_dataset_metadata")
    /\ \E ok \in BOOLEAN :
          /\ pub_log' =
                 IF Head(pub_todo).op = "upload_dataset_metadata"
                 THEN LoggedPayload(Head(pub_todo).op, Head(pub_todo).dataset_id,
                                    IF ok THEN "ok" ELSE "failed", Head(pub_todo).payload)
                 ELSE Logged(Head(pub_todo).op, Head(pub_todo).dataset_id,
                             IF ok THEN "ok" ELSE "failed")
          /\ IF ok
             THEN pub_todo' = Tail(pub_todo) /\ UNCHANGED <<pc, failure, step_result>>
             ELSE Raise("metadata_call") /\ UNCHANGED <<step_result, pub_todo>>
    /\ PubSame

\* process_result_dataset, line 474: the dataset, whether it was created
PubDatasetReturn ==
    /\ Publishing("return_dataset")
    /\ dataset_result' = [dataset_result EXCEPT ![step_number] =
                              [id |-> Head(pub_todo).dataset_id,
                               created |-> Head(pub_todo).created,
                               file_ids |-> uploaded_files]]
    /\ uploaded_files' = <<>>
    /\ pub_todo' = Tail(pub_todo)
    /\ UNCHANGED <<pc, failure, step_result, pub_log>>
    /\ PubBase

\* A faulty resolution: the id of the request whatever its type
target_dataset_of_any(resources) == resources.id

\* process_result_file, lines 387 to 392: the dataset the files go to
target_dataset_of(resources) ==
    IF resources.type = "dataset" THEN resources.id
    ELSE IF resources.type = "file" /\ resources.parent # Nil
            /\ resources.parent.type = "dataset" THEN resources.parent.id
    ELSE None

\* process_result_file, lines 387 to 401: the dataset of the request
PubResultFile ==
    /\ Publishing("result_file")
    /\ LET dataset_id == target_dataset_of(resource)
       IN  IF dataset_id = None
           THEN Raise("publish") /\ UNCHANGED <<step_result, pub_todo, pub_log>>
           ELSE /\ pub_todo' = Uploads(Head(pub_todo).entries, dataset_id) \o Tail(pub_todo)
                /\ UNCHANGED <<pc, failure, step_result, pub_log>>
    /\ PubSame

\* process_results_json, line 515: every call is made and it returns True
PubReturn ==
    /\ pc = "publish"
    /\ pub_todo = <<>>
    /\ step_result' = [step_result EXCEPT ![step_number] = "true"]
    /\ pc' = "for_step"
    /\ uploaded_files' = <<>>
    /\ UNCHANGED <<failure, pub_todo, pub_log, dataset_result>>
    /\ PubBase

\* ------------------------------------------------------------------------
\* The specification

\* The requests of the model: the configuration, the resource and the content
\* of the experiment file of each
Requests ==
    { [args |-> ArgsNoVolume, resource |-> ResourceDataset, experiment |-> ExperimentFull],
      [args |-> ArgsNoSpace, resource |-> ResourceDataset, experiment |-> ExperimentFull],
      [args |-> ArgsMnt, resource |-> ResourceNoExperiment, experiment |-> ExperimentFull],
      [args |-> ArgsMnt, resource |-> ResourceDataset, experiment |-> ExperimentFull],
      [args |-> ArgsWork, resource |-> ResourceFile, experiment |-> ExperimentRemoved],
      [args |-> ArgsWork, resource |-> ResourceFileInDataset,
       experiment |-> ExperimentNoPassword] }

vars == <<args, resource, experiment, pc, failure, working_folder, working_subfolder,
          step_number, previous_step_cache_dir, env, env_json, returncode,
          elapsed, engine, results_files, cache_dirs, stage_source, env_of,
          workstep_metadata, clowder_info, experiment_info,
          ingested, process_metadata, uploaded_files, dataset_result, step_result,
          pub_todo, pub_log, findVars, raceVars, relocateVars>>

\* process_message at its start
ProcessInit ==
    /\ pc = "start"
    /\ failure = None
    /\ working_folder = None
    /\ working_subfolder = None
    /\ step_number = 0
    /\ previous_step_cache_dir = None
    /\ env = NoEnv
    /\ env_json = NoEnv
    /\ returncode = Nil
    /\ elapsed = 0
    /\ engine = [s \in Steps |-> NoProc]
    /\ results_files = << >>
    /\ cache_dirs = << >>
    /\ stage_source = [s \in Steps |-> NoSource]
    /\ env_of = [s \in Steps |-> NoEnv]
    /\ workstep_metadata = [password |-> None]
    /\ clowder_info = NoCredentials
    /\ experiment_info = << >>
    /\ ingested = [s \in Steps |-> Nil]
    /\ process_metadata = << >>
    /\ uploaded_files = <<>>
    /\ dataset_result = [s \in Steps |-> Nil]
    /\ step_result = [s \in Steps |-> None]
    /\ pub_todo = <<>>
    /\ pub_log = <<>>

\* the requests that run side by side in the specification of the race
Concurrent == {1, 2}

\* No concurrent requests
RaceIdle ==
    /\ rq_pc = [r \in Concurrent |-> "idle"]
    /\ rq_info = [r \in Concurrent |-> << >>]
    /\ rq_dataset_id = [r \in Concurrent |-> None]
    /\ repository = {}

\* No call of relocate_files on its own
RelocateIdle ==
    rl_env = NoEnv /\ rl_resources = NoSource /\ rl_files = Nil /\ rl_return = Nil

\* No call of find_dict_key on its own
FindIdle ==
    fd_haystack = << >> /\ fd_key = None /\ fd_insensitive = TRUE /\ fd_run = Nil

Init ==
    /\ \E r \in Requests :
          args = r.args /\ resource = r.resource /\ experiment = r.experiment
    /\ ProcessInit
    /\ FindIdle
    /\ RaceIdle
    /\ RelocateIdle

\* ------------------------------------------------------------------------
\* find_dict_key on its own: a call on any mapping of up to three levels,
\* with any of the keys, ignoring case or not

TreeKeys == {"clowder", "Clowder", "site"}
SearchKeys == {"clowder", "Clowder"}

\* the mappings of up to n keys, all different, with values of a set
Mappings(values, n) ==
    LET pairs == { <<k, v>> : k \in TreeKeys, v \in values }
        all == UNION { [1..m -> pairs] : m \in 1..n }
    IN  { t \in all : \A i, j \in DOMAIN t : i # j => t[i][1] # t[j][1] }

Level2 == Mappings({Txt("deep")}, 1)
Level1 == Mappings({Txt("mid")} \cup { Map(m) : m \in Level2 }, 1)
Level0 == Mappings({Txt("top")} \cup { Map(m) : m \in Level1 }, MaxWidth)

InitFind ==
    /\ args = ArgsMnt /\ resource = ResourceDataset /\ experiment = ExperimentFull
    /\ ProcessInit
    /\ fd_haystack \in Level0
    /\ fd_key \in SearchKeys
    /\ fd_insensitive \in BOOLEAN
    /\ fd_run = Nil
    /\ RaceIdle
    /\ RelocateIdle

\* the call and its return
FindCall ==
    /\ fd_run = Nil
    /\ fd_run' = find_dict_key_run(fd_haystack, fd_key, fd_insensitive)
    /\ UNCHANGED <<fd_haystack, fd_key, fd_insensitive, args, resource, experiment,
                   raceVars, relocateVars, pc, failure, folderVars, stepVars, returncode, worldVars, mdVars, pubVars>>

NextFind == FindCall

SpecFind == InitFind /\ [][NextFind]_vars

\* ------------------------------------------------------------------------
\* process_result_dataset in two requests at once (two extractor processes,
\* or two messages), on one repository.  Each request is at a container
\* result of the first step; the repository answers one call at a time.

ExperimentOther ==
    << <<"date", Txt("2020-01-01")>>, <<"experiment", Txt("trial1")>>,
       <<"name", Txt("field8")>> >>

ExistingDataset == [id |-> "ds-old", name |-> "2020-01-01_trial1_field7"]

InitRace ==
    /\ args = ArgsMnt /\ resource = ResourceDataset /\ experiment = ExperimentFull
    /\ ProcessInit
    /\ FindIdle
    /\ RelocateIdle
    /\ rq_pc = [r \in Concurrent |-> "lookup"]
    /\ rq_info \in [Concurrent -> { experiment_info_of(ExperimentFull),
                                     experiment_info_of(ExperimentOther) }]
    /\ rq_dataset_id = [r \in Concurrent |-> None]
    /\ repository \in { {}, {ExistingDataset} }

RaceSame == UNCHANGED <<args, resource, experiment, findVars, relocateVars, rq_info, pc, failure,
                        folderVars, stepVars, returncode, worldVars, mdVars, pubVars>>

\* extractors.get_datasetid_by_name: the id of a dataset of that name, or None
get_datasetid_by_name(datasets, dataset_name) ==
    IF \E d \in datasets : d.name = dataset_name
    THEN (CHOOSE d \in datasets : d.name = dataset_name).id
    ELSE None

\* A repository that refuses a second dataset of a name
createempty_unique(datasets, dataset_name, id) ==
    IF \E d \in datasets : d.name = dataset_name THEN datasets
    ELSE datasets \cup { [id |-> id, name |-> dataset_name] }

\* create_dataset, lines 229 to 232: api/datasets/createempty makes a dataset
\* of the name, whatever datasets there are
createempty(datasets, dataset_name, id) ==
    datasets \cup { [id |-> id, name |-> dataset_name] }

\* lines 429 to 438: the name and the lookup
RqLookup(r) ==
    /\ rq_pc[r] = "lookup"
    /\ LET dataset_name == dataset_name_of(WORKFLOW[1], rq_info[r])
           dataset_id == get_datasetid_by_name(repository, dataset_name)
       IN  /\ rq_dataset_id' = [rq_dataset_id EXCEPT ![r] = dataset_id]
           /\ rq_pc' = [rq_pc EXCEPT ![r] = IF NeedsCreate(dataset_id) THEN "create"
                                            ELSE "upload"]
    /\ UNCHANGED repository
    /\ RaceSame

\* lines 439 to 442: the dataset is created
RqCreate(r) ==
    /\ rq_pc[r] = "create"
    /\ LET dataset_name == dataset_name_of(WORKFLOW[1], rq_info[r])
           id == IF r = 1 THEN "ds-new1" ELSE "ds-new2"
       IN  /\ repository' = createempty(repository, dataset_name, id)
           /\ rq_dataset_id' = [rq_dataset_id EXCEPT ![r] = id]
    /\ rq_pc' = [rq_pc EXCEPT ![r] = "upload"]
    /\ RaceSame

\* lines 444 to 447: the files are uploaded
RqUpload(r) ==
    /\ rq_pc[r] = "upload"
    /\ rq_pc' = [rq_pc EXCEPT ![r] = "metadata"]
    /\ UNCHANGED <<rq_dataset_id, repository>>
    /\ RaceSame

\* lines 449 to 474: the metadata, and the return
RqMetadata(r) ==
    /\ rq_pc[r] = "metadata"
    /\ rq_pc' = [rq_pc EXCEPT ![r] = "returned"]
    /\ UNCHANGED <<rq_dataset_id, repository>>
    /\ RaceSame

NextRace ==
    \/ \E r \in Concurrent : RqLookup(r)
    \/ \E r \in Concurrent : RqCreate(r)
    \/ \E r \in Concurrent : RqUpload(r)
    \/ \E r \in Concurrent : RqMetadata(r)

SpecRace == InitRace /\ [][NextRace]_vars

\* ------------------------------------------------------------------------
\* The reconciliation of the credentials on its own: process_message at the
\* end of the wait of its first step, with any experiment file.  The clowder
\* section has any of space, username and password, in either order; it is at
\* the top of the file under clowder or Clowder, or in a mapping of the file,
\* or the file has none, or the file is empty.

SpaceChoices == { <<>>, << <<"space", Txt("sp")>> >> }
UsernameChoices == { <<>>, << <<"username", Txt("u")>> >> }
PasswordChoices == { <<>>, << <<"password", Txt("p")>> >>,
                     << <<"Password", Txt("<removed>")>> >> }

ClowderSections ==
    { space \o username \o password :
        space \in SpaceChoices, username \in UsernameChoices, password \in PasswordChoices }
    \cup { password \o username \o space :
        space \in SpaceChoices, username \in UsernameChoices, password \in PasswordChoices }

ExperimentBase ==
    << <<"date", Txt("2020-01-01")>>, <<"experiment", Txt("trial1")>>,
       <<"name", Txt("field7")>> >>

ExperimentFiles ==
    { << >>, ExperimentBase }
    \cup { ExperimentBase \o << <<k, Map(section)>> >> :
             k \in {"clowder", "Clowder"}, section \in ClowderSections }
    \cup { ExperimentBase \o << <<"site", Map(<< <<"clowder", Map(section)>> >>)>> >> :
             section \in ClowderSections }

\* the environment of the first step as env.json has it (lines 627 to 647)
StagedEnv ==
    LET e == create_env_json(Join(ArgsMnt.working_space.path, <<TmpName>>),
                             <<Root, TmpName>>, ArgsMnt.named_volume, WORKFLOW[1],
                             ResourceDataset)
        r == relocate_files(e, [kind |-> "resources",
                                local_paths |-> ResourceDataset.local_paths], << >>, << >>)
    IN  [e EXCEPT !.EXPERIMENT_METADATA_FILENAME =
            SubSeq(r.experiment_path, Len(e.BASE_DIR) + 1, Len(r.experiment_path))]

InitReconcile ==
    /\ args = ArgsMnt /\ resource = ResourceDataset
    /\ experiment \in ExperimentFiles
    /\ pc = "reconcile"
    /\ failure = None
    /\ working_folder = Join(ArgsMnt.working_space.path, <<TmpName>>)
    /\ working_subfolder = <<Root, TmpName>>
    /\ step_number = 1
    /\ previous_step_cache_dir = None
    /\ env = StagedEnv
    /\ env_json = StagedEnv
    /\ returncode = [code |-> 0, in_time |-> TRUE]
    /\ elapsed = PROC_WAIT_SLEEP_SEC
    /\ engine = [s \in Steps |->
                    IF s = 1 THEN [state |-> "exited", stdout_open |-> FALSE, lines |-> 0,
                                   code |-> 0, in_time |-> TRUE]
                    ELSE NoProc]
    /\ results_files = << >>
    /\ cache_dirs = << >>
    /\ stage_source = [s \in Steps |->
                          IF s = 1 THEN [kind |-> "resources",
                                         local_paths |-> ResourceDataset.local_paths]
                          ELSE NoSource]
    /\ env_of = [s \in Steps |-> IF s = 1 THEN StagedEnv ELSE NoEnv]
    /\ workstep_metadata = [password |-> None]
    /\ clowder_info = NoCredentials
    /\ experiment_info = << >>
    /\ ingested = [s \in Steps |-> Nil]
    /\ process_metadata = << >>
    /\ uploaded_files = <<>>
    /\ dataset_result = [s \in Steps |-> Nil]
    /\ step_result = [s \in Steps |-> None]
    /\ pub_todo = <<>>
    /\ pub_log = <<>>
    /\ FindIdle
    /\ RaceIdle
    /\ RelocateIdle

NextReconcile == Reconcile

SpecReconcile == InitReconcile /\ [][NextReconcile]_vars

\* ------------------------------------------------------------------------
\* relocate_files on its own: a call for the first step on any list of up to
\* MaxPaths of the paths below that has an experiment file, a call for the
\* second step on a cache folder of any content or on one that is not there,
\* and a call with resources that are neither.  tiles is a folder or a path
\* that is neither file nor folder; old_exp.yaml is a file or a folder.

MaxPaths == 3

InFolder == <<Root, "in">>
StagingNames == {"image1.tif", "exp.yaml", "old_exp.yaml", "tiles"}

\* the lists of up to n paths of a folder, all different
PathLists(dir, n) ==
    LET all == UNION { [1..m -> { Join(dir, <<name>>) : name \in StagingNames }] :
                          m \in 1..n }
    IN  { l \in all : \A i, j \in DOMAIN l : i # j => l[i] # l[j] }

\* the paths of a folder that are not plain files
Specials(dir) ==
    { (Join(dir, <<"tiles">>) :> t) @@ old :
        t \in {"dir", "other"},
        old \in { << >>, (Join(dir, <<"old_exp.yaml">>) :> "dir") } }

\* the environment create_env_json makes for a step of the request
EnvOfStep(s, resources) ==
    create_env_json(Join(ArgsMnt.working_space.path, <<TmpName>>), <<Root, TmpName>>,
                    ArgsMnt.named_volume, WORKFLOW[s], resources)

InitRelocate ==
    /\ args = ArgsMnt /\ resource = ResourceDataset /\ experiment = ExperimentFull
    /\ ProcessInit
    /\ FindIdle
    /\ RaceIdle
    /\ \/ \E l \in PathLists(InFolder, MaxPaths) :
             /\ FirstYaml(l) # None
             /\ rl_resources = [kind |-> "resources", local_paths |-> l]
             /\ rl_env = EnvOfStep(1, rl_resources)
             /\ \E special \in Specials(InFolder) :
                   rl_files = [dirs |-> << >>, special |-> special]
       \/ /\ rl_env = EnvOfStep(2, ResourceDataset)
          /\ rl_resources = [kind |-> "dir", path |-> EnvOfStep(1, ResourceDataset).CACHE_DIR]
          /\ \E special \in Specials(rl_resources.path) :
                \/ rl_files = [dirs |-> << >>, special |-> special]
                \/ \E names \in SUBSET StagingNames :
                      rl_files = [dirs |-> (rl_resources.path :> names),
                                  special |-> special]
       \/ /\ rl_env = EnvOfStep(2, ResourceDataset)
          /\ rl_resources = NoSource
          /\ rl_files = [dirs |-> << >>, special |-> << >>]
    /\ rl_return = Nil

\* the call and its return
RelocateCall ==
    /\ rl_return = Nil
    /\ rl_return' = relocate_files(rl_env, rl_resources, rl_files.dirs, rl_files.special)
    /\ UNCHANGED <<rl_env, rl_resources, rl_files, args, resource, experiment, findVars,
                   raceVars, pc, failure, folderVars, stepVars, returncode, worldVars,
                   mdVars, pubVars>>

NextRelocate == RelocateCall

SpecRelocate == InitRelocate /\ [][NextRelocate]_vars

\* ------------------------------------------------------------------------
\* process_message

Next ==
    \/ Start
    \/ ForStep
    \/ Stage
    \/ Launch
    \/ WhileCond
    \/ LoopBody
    \/ Readline
    \/ ReadlineEOF
    \/ ReadlineError
    \/ Tick
    \/ Poll
    \/ Sleep
    \/ TimeCheck
    \/ Reconcile
    \/ LoadResults
    \/ PubLookup
    \/ PubCreate
    \/ PubUpload
    \/ PubDeleteFileMetadata
    \/ PubUploadFileMetadata
    \/ PubDatasetMetadata
    \/ PubDatasetReturn
    \/ PubResultFile
    \/ PubReturn
    \/ \E s \in Steps : EngineEmit(s)
    \/ \E s \in Steps : EngineFinish(s)
    \/ \E s \in Steps : EngineExit(s)

Spec == Init /\ [][Next]_vars

\* ------------------------------------------------------------------------
\* The claims

Staged(s) == stage_source[s] # NoSource
Launched(s) == engine[s].state # "none"
Running(s) == engine[s].state \in {"running", "finishing"}

\* the step at which the request failed, or whose results code was rejected
StepFailed(s) ==
    \/ step_result[s] = "false"
    \/ failure # None /\ step_number = s

\* C1: once a step has failed (by an error of any kind or by a results code
\* that the step's predicate rejects), no later step is staged or launched and
\* end_message is not reached.
C1_FailureAbortsRequest ==
    \A s \in Steps :
        StepFailed(s) =>
            /\ pc # "done"
            /\ \A t \in Steps : t > s => ~Staged(t) /\ ~Launched(t)

\* C2: the first step stages from the resources of the request, and every
\* later step from the CACHE_DIR of the environment built for the step before.
C2_CacheHandOff ==
    \A n \in Steps :
        Staged(n) =>
            IF n = 1
            THEN stage_source[n] = [kind |-> "resources", local_paths |-> resource.local_paths]
            ELSE stage_source[n] = [kind |-> "dir", path |-> env_of[n - 1].CACHE_DIR]

C2_Witness ==
    /\ Staged(2)
    /\ stage_source[2].path = <<Root, "mnt", TmpName, "odm_workflow", "cache">>

\* the engine of the current step has exited within the total timeout
ExitedInTime == engine[step_number].state = "exited" /\ engine[step_number].in_time

\* C3: for an engine that does not exit within the total timeout, the wait
\* loop ends by the timeout error only, raised not before the elapsed time
\* exceeds PROC_WAIT_TOTAL_SEC, and the wait does not go on for more than
\* about one poll interval (here: two of them) past the total.
C3_TimeoutRaisedOnTime ==
    /\ failure = "timeout" => elapsed > PROC_WAIT_TOTAL_SEC
    /\ (pc \in WaitPcs /\ ~ExitedInTime) =>
           elapsed <= PROC_WAIT_TOTAL_SEC + 2 * PROC_WAIT_SLEEP_SEC
    /\ pc = "reconcile" => ExitedInTime

\* C4: a results descriptor whose code the step's predicate rejects ends the
\* ingestion with the failure outcome, and no call to the repository is made
\* for that step.
C4_RejectedNotPublished ==
    \A s \in Steps :
        (ingested[s] # Nil /\ ~return_code_success(WORKFLOW[s], ingested[s].content.code)) =>
            /\ step_result[s] = "false"
            /\ \A i \in 1..Len(pub_log) : pub_log[i].step # s

C4_Witness ==
    \E s \in Steps : step_result[s] = "false" /\ ingested[s].content.code = 1

\* C5: whether the current step succeeded is the step's predicate applied to
\* the exit code of the engine process launched for it.
C5_ExitCodeDecides ==
    (step_number \in Steps /\ step_result[step_number] # None /\ returncode # Nil) =>
        ((step_result[step_number] = "true")
             <=> return_code_success(WORKFLOW[step_number], returncode.code))

\* C6: the results descriptor ingested for a step was written by the engine
\* run of that step, so that no descriptor is ingested for two steps.
C6_DescriptorOfOwnRun ==
    \A s \in Steps : ingested[s] # Nil => ingested[s].producer = s

\* C7: whenever results.json is being loaded, the process launched for the
\* step has a return code.
C7_ReadAfterExit ==
    pc = "load_results" => returncode # Nil

\* C8: at most one engine process runs at any time, and the engine of a step
\* is launched only after the engine of the step before has terminated and
\* that step's results have been ingested and published.
C8_StrictlySequential ==
    /\ Cardinality({ s \in Steps : Running(s) }) <= 1
    /\ \A s \in Steps :
           (s > 1 /\ Launched(s)) =>
               engine[s - 1].state = "exited" /\ step_result[s - 1] = "true"

\* the value of the first key of a mapping that is name when case is ignored
SectionAt(tree, name) ==
    LET hits == { i \in 1..Len(tree) : Lower(tree[i][1]) = name }
    IN  IF hits = {} THEN Nil
        ELSE tree[CHOOSE i \in hits : \A j \in hits : i <= j][2]

ClowderSection == SectionAt(experiment, "clowder")

\* the clowder section of the experiment file holds a password
HoldsPassword ==
    /\ ClowderSection # Nil
    /\ ClowderSection.t = "d"
    /\ SectionAt(ClowderSection.v, "password") # Nil

PlainPassword == SectionAt(ClowderSection.v, "password").text

Reconciled == pc \in {"load_results", "publish"}

SecuredOrRemoved(text) ==
    \/ text = "<removed>"
    \/ \E e \in EncryptedSet \ {None} : text = "secured:" \o e /\ text # "<removed>"

\* C9 as stated: with a password in the clowder section, the 'password' entry
\* of the workstep metadata is '<removed>' or the prefixed secured form, and
\* is never the plaintext password.
C9_PasswordNeverPlain ==
    (Reconciled /\ HoldsPassword) =>
        /\ SecuredOrRemoved(workstep_metadata.password)
        /\ workstep_metadata.password # PlainPassword

\* C9 as amended: the entry is '<removed>' or the prefixed secured form, and
\* is the plaintext password only when that password is the text '<removed>'.
C9_PasswordSecuredOrRemoved ==
    (Reconciled /\ HoldsPassword) =>
        /\ SecuredOrRemoved(workstep_metadata.password)
        /\ workstep_metadata.password = PlainPassword => PlainPassword = "<removed>"

C9_Witness ==
    /\ Reconciled
    /\ HoldsPassword
    /\ PlainPassword = "p"
    /\ workstep_metadata.password = "secured:gAAAAABf3"

\* C10: a step whose engine run left no results descriptor gets no further
\* than the loading of the results: nothing is published for it and no later
\* step runs.
C10_NoDescriptorIsFatal ==
    (pc \in {"publish", "for_step"} /\ step_number \in Steps) =>
        /\ env.RESULTS_FILE_PATH \in DOMAIN results_files
        /\ results_files[env.RESULTS_FILE_PATH].producer = step_number

\* the descriptor that process_results_json was given for the current step
Descriptor == ingested[step_number].content

\* the value the results file gives for a key that is not structural
ValueIn(d, k) == d.extra[k]

\* C11: while an accepted descriptor is being published, the process metadata
\* has the keys of the descriptor other than container, file, files, code,
\* error and message, and no other, each with the value the descriptor gives.
C11_ProcessMetadataPartition ==
    pc = "publish" =>
        /\ DOMAIN process_metadata \subseteq KeysOf(Descriptor)
        /\ DOMAIN process_metadata \cap
               {"container", "file", "files", "code", "error", "message"} = {}
        /\ \A k \in KeysOf(Descriptor) :
               k \notin {"container", "file", "files", "code", "error", "message"} =>
                   k \in DOMAIN process_metadata
                   /\ process_metadata[k] = ValueIn(Descriptor, k)

C11_Witness ==
    /\ pc = "publish"
    /\ "message" \in KeysOf(Descriptor)
    /\ process_metadata = ("note" :> "n1")

\* the calls of a kind made to the repository for a step, by their place in
\* the log
CallsOf(s, op) == { i \in 1..Len(pub_log) : pub_log[i].step = s /\ pub_log[i].op = op }

\* C12: a dataset is created only right after a lookup of the same name that
\* found none, at most once for a step; process_result_dataset says created
\* exactly when the creation call was made; and a creation call that fails or
\* answers without an id ends the request with no call after it.
C12_CreateOnlyIfNotFound ==
    /\ \A i \in 1..Len(pub_log) :
           pub_log[i].op = "create" =>
               /\ i > 1
               /\ pub_log[i - 1].op = "lookup"
               /\ pub_log[i - 1].step = pub_log[i].step
               /\ pub_log[i - 1].target = pub_log[i].target
               /\ pub_log[i - 1].answer = None
    /\ \A s \in Steps : Cardinality(CallsOf(s, "create")) <= 1
    /\ \A s \in Steps :
           dataset_result[s] # Nil =>
               (dataset_result[s].created <=> CallsOf(s, "create") # {})
    /\ \A i \in 1..Len(pub_log) :
           (pub_log[i].op = "create" /\ pub_log[i].answer \in {"http_error", "no_id"}) =>
               /\ failure = "publish"
               /\ i = Len(pub_log)

C12_Witness ==
    /\ dataset_result[1] # Nil
    /\ dataset_result[1].id = "ds-created" /\ dataset_result[1].created
    /\ dataset_result[2] # Nil
    /\ dataset_result[2].id = "ds-found" /\ ~dataset_result[2].created

\* C13: an upload that returns no id is the last call of the request: the
\* request has ended by the error, no file is uploaded and no step staged
\* after it, and nothing is called to undo what was uploaded or created.
C13_UploadFailureIsFatal ==
    \A i \in 1..Len(pub_log) :
        (pub_log[i].op = "upload" /\ pub_log[i].answer = None) =>
            /\ i = Len(pub_log)
            /\ pc = "error"
            /\ failure = "publish"
            /\ \A t \in Steps : t > pub_log[i].step => ~Staged(t) /\ ~Launched(t)

C13_Witness ==
    /\ Len(pub_log) = 4
    /\ pub_log[2].op = "create" /\ pub_log[2].answer = "ds-created"
    /\ pub_log[3].op = "upload" /\ pub_log[3].answer = "id-ortho"
    /\ pub_log[3].target = <<"ds-created", "ortho.tif">>
    /\ pub_log[4].op = "upload" /\ pub_log[4].answer = None
    /\ pc = "error"

\* the calls that delete or upload metadata, of a file or of a dataset
MetadataOps ==
    {"delete_file_metadata", "upload_file_metadata",
     "remove_dataset_metadata", "upload_dataset_metadata"}

\* C14: a metadata call that failed is never what ends the request: the
\* failure is caught, and the calls and steps after it go on.
C14_MetadataFailureNotFatal ==
    \A i \in 1..Len(pub_log) :
        (pub_log[i].op \in MetadataOps /\ pub_log[i].answer = "failed") =>
            ~(i = Len(pub_log) /\ pc = "error" /\ failure = "metadata_call")

\* the descriptor loaded for step s gives its files at the top level, to
\* process_result_file, and has no container
FilesOnly(s) ==
    /\ ingested[s] # Nil
    /\ ingested[s].content.container = Nil
    /\ ingested[s].content.file # None \/ ingested[s].content.files # None

\* the request is a dataset, or a file of a dataset
OfDataset ==
    \/ resource.type = "dataset"
    \/ resource.type = "file" /\ resource.parent # Nil /\ resource.parent.type = "dataset"

\* C15: the files process_result_file uploads go to the dataset of the
\* request, or to the parent dataset of a request that is a file; a request
\* with neither has no file uploaded and its step does not succeed.
C15_TargetDataset ==
    /\ \A i \in 1..Len(pub_log) :
           (pub_log[i].op = "upload" /\ FilesOnly(pub_log[i].step)) =>
               /\ OfDataset
               /\ resource.type = "dataset" => pub_log[i].target[1] = resource.id
               /\ resource.type = "file" => pub_log[i].target[1] = resource.parent.id
    /\ \A s \in Steps :
           (FilesOnly(s) /\ ~OfDataset) => step_result[s] # "true"

C15_Witness ==
    /\ pub_log # <<>>
    /\ pub_log[1].op = "upload"
    /\ pub_log[1].target = <<"ds-parent", "plots.csv">>
    /\ resource.type = "file"

\* the name the claim gives the dataset of step s: the date and the
\* experiment of the experiment file, and the name of the step
NameWithStep(s) ==
    LET info == experiment_info_of(experiment)
    IN  info["date"] \o "_" \o info["experiment"] \o "_" \o WORKFLOW[s].name

\* C16: with date and experiment in the experiment file, the dataset of a
\* container result is looked up under '<date>_<experiment>_<name of the
\* step>', and the formatting of the name does not fail.
C16_DatasetNameOfStep ==
    ({"date", "experiment"} \subseteq DOMAIN experiment_info_of(experiment)) =>
        /\ \A i \in 1..Len(pub_log) :
               pub_log[i].op = "lookup" => pub_log[i].target = NameWithStep(pub_log[i].step)
        /\ ~(pc = "error" /\ pub_todo # <<>> /\ Head(pub_todo).op = "dataset")

\* the keys of the top level that the search takes for the key
TopMatches ==
    { i \in 1..Len(fd_haystack) :
        IF fd_insensitive THEN Lower(fd_haystack[i][1]) = Lower(fd_key)
        ELSE fd_haystack[i][1] = fd_key }

\* C17: a call on a mapping with a matching key at its top level returns the
\* (first) such key with its value and goes into no nested mapping.
C17_TopLevelMatchShortCircuits ==
    (fd_run # Nil /\ TopMatches # {}) =>
        LET first == CHOOSE i \in TopMatches : \A j \in TopMatches : i <= j
        IN  /\ fd_run.found = [key |-> fd_haystack[first][1], value |-> fd_haystack[first][2]]
            /\ fd_run.visited = <<>>

\* a match at the top level that comes after a nested mapping holding the key
C17_Witness ==
    /\ fd_run # Nil
    /\ fd_haystack = << <<"site", Map(<< <<"clowder", Txt("mid")>> >>)>>,
                        <<"Clowder", Txt("top")>> >>
    /\ fd_key = "clowder"
    /\ fd_insensitive
    /\ fd_run.found.key = "Clowder"

\* the pairs of the nested mappings in the order of the search: a mapping's
\* own pairs, then those of its nested mappings, left to right
RECURSIVE PairsBelow(_)
PairsBelow(tree) ==
    IF tree = <<>> THEN <<>>
    ELSE LET value == Head(tree)[2]
             Inner(m) == m \o PairsBelow(m)
         IN  (IF value.t = "d" THEN Inner(value.v) ELSE <<>>) \o PairsBelow(Tail(tree))

\* what a call that ignores case finds when the nested keys are compared,
\* character for character, with wanted
ExpectedWith(wanted) ==
    IF TopMatches # {}
    THEN LET first == CHOOSE i \in TopMatches : \A j \in TopMatches : i <= j
         IN  [key |-> fd_haystack[first][1], value |-> fd_haystack[first][2]]
    ELSE LET below == PairsBelow(fd_haystack)
             hits == { i \in 1..Len(below) : below[i][1] = wanted }
         IN  IF hits = {} THEN Nil
             ELSE LET first == CHOOSE i \in hits : \A j \in hits : i <= j
                  IN  [key |-> below[first][1], value |-> below[first][2]]

\* C18: a default call matches a top-level key ignoring case and a nested key
\* when it is, character for character, the searched key, the nested
\* mappings being taken left to right.
C18_NestedMatchesSearchedKey ==
    (fd_run # Nil /\ fd_insensitive) => fd_run.found = ExpectedWith(fd_key)

\* the datasets of the repository that have the name of request r
NamedAs(r) ==
    { d \in repository : d.name = dataset_name_of(WORKFLOW[1], rq_info[r]) }

\* C19: nothing ties the lookup of a request to its creation call: a request
\* that is past the creation call has made a dataset of its name whatever the
\* other request did in between, so that two requests with one name that both
\* looked up before either created leave two datasets of that name.
C19_LookupThenCreateNotAtomic ==
    /\ \A r \in Concurrent :
           (rq_pc[r] \in {"upload", "metadata", "returned"}
            /\ rq_dataset_id[r] \in {"ds-new1", "ds-new2"}) =>
               \E d \in NamedAs(r) : d.id = rq_dataset_id[r]
    /\ \A r \in Concurrent : Cardinality(NamedAs(r)) <= Cardinality(Concurrent)

\* both requests have returned, and the repository has two datasets of the
\* one name
C19_Witness ==
    /\ \A r \in Concurrent : rq_pc[r] = "returned"
    /\ rq_info[1] = rq_info[2]
    /\ Cardinality(NamedAs(1)) = 2

\* C20: a request without the named volume or without the working space
\* ends in a configuration error and in nothing else: no working folder is
\* made, no step is begun, nothing is staged, no env.json is written and no
\* engine is launched.
C20_ConfigurationErrorBeforeStaging ==
    (args.named_volume = None \/ args.working_space = Nil) =>
        /\ pc \in {"start", "error"}
        /\ pc = "error" => failure = "configuration"
        /\ working_folder = None /\ working_subfolder = None
        /\ step_number = 0
        /\ env = NoEnv /\ env_json = NoEnv
        /\ \A s \in Steps : ~Staged(s) /\ ~Launched(s)
        /\ cache_dirs = << >> /\ results_files = << >>

\* the request without the named volume has failed
C20_Witness ==
    /\ args.named_volume = None
    /\ pc = "error" /\ failure = "configuration"

\* the files of the request that have the recognized extension, by their
\* place in the list
Recognized ==
    { i \in 1..Len(resource.local_paths) :
        EndsWith(Lower(Basename(resource.local_paths[i])), ".yaml") }

C22_ResultsOutsideBaseDir ==
    \A s \in Steps :
        env_of[s] # NoEnv =>
            /\ StartsWith(env_of[s].RESULTS_FILE_PATH, working_folder)
            /\ ~StartsWith(env_of[s].RESULTS_FILE_PATH, BASE_DIR)

\* C22 as amended: the results file of every step is results.json in the
\* working folder of the request, under the configured working space; it is
\* inside BASE_DIR when the working space is.
C22_ResultsInWorkingFolder ==
    \A s \in Steps :
        env_of[s] # NoEnv =>
            /\ env_of[s].RESULTS_FILE_PATH = working_folder \o <<"results.json">>
            /\ StartsWith(env_of[s].RESULTS_FILE_PATH, args.working_space.path)
            /\ StartsWith(args.working_space.path, BASE_DIR) =>
                   StartsWith(env_of[s].RESULTS_FILE_PATH, BASE_DIR)

\* the second step of a request whose working space is the base folder
C22_Witness ==
    /\ env_of[2] # NoEnv
    /\ args.working_space.path = BASE_DIR
    /\ env_of[2].RESULTS_FILE_PATH = <<Root, "mnt", TmpName, "results.json">>

\* C23: when the poll has seen the exit of the engine of the current step
\* before the elapsed time exceeded the total timeout, the wait for that step
\* does not end by the timeout error.
C23_ObservedExitNotTimedOut ==
    (returncode # Nil /\ returncode.in_time) => failure # "timeout"

\* the pairs of a mapping at nesting depth d, the top level being depth 0
RECURSIVE PairsAt(_, _)
PairsAt(tree, d) ==
    IF d = 0 THEN { tree[i] : i \in 1..Len(tree) }
    ELSE UNION { PairsAt(tree[i][2].v, d - 1) :
                    i \in { j \in 1..Len(tree) : tree[j][2].t = "d" } }

\* the pairs at depth d whose key the search takes for the key: at the top
\* as the call says, below it by the key the nested calls are given
MatchesAt(d) ==
    LET check_key == IF fd_insensitive THEN Lower(fd_key) ELSE fd_key
    IN  IF d = 0 THEN { fd_haystack[i] : i \in TopMatches }
        ELSE { pair \in PairsAt(fd_haystack, d) : pair[1] = check_key }

\* the nesting depths of the mappings searched
Depths == 0..2

\* C24: the pair a call returns is one of the least nesting depth at which a
\* key matches; a call returns nothing only when no key matches.
C24_BreadthFirst ==
    fd_run # Nil =>
        LET matching == { d \in Depths : MatchesAt(d) # {} }
        IN  IF matching = {} THEN fd_run.found = Nil
            ELSE LET least == CHOOSE d \in matching : \A e \in matching : d <= e
                 IN  /\ fd_run.found # Nil
                     /\ <<fd_run.found.key, fd_run.found.value>> \in MatchesAt(least)

\* the files uploaded for step s into the dataset of its container result,
\* by their place in the log
UploadedInto(s) ==
    { i \in 1..Len(pub_log) :
        /\ pub_log[i].step = s /\ pub_log[i].op = "upload"
        /\ pub_log[i].answer # None
        /\ pub_log[i].target[1] = dataset_result[s].id }

\* C25: what process_result_dataset returns lists the files uploaded during
\* the call, one entry each with the path and the id, in the order of the
\* uploads.
C25_UploadedFilesComplete ==
    \A s \in Steps :
        dataset_result[s] # Nil =>
            LET file_ids == dataset_result[s].file_ids
                Before(i) == { j \in UploadedInto(s) : j <= i }
            IN  /\ Len(file_ids) = Cardinality(UploadedInto(s))
                /\ \A i \in UploadedInto(s) :
                       LET n == Cardinality(Before(i))
                       IN  /\ n <= Len(file_ids)
                           /\ file_ids[n].path = pub_log[i].target[2]
                           /\ file_ids[n].id = pub_log[i].answer

\* the file entries of the results descriptors, and the entry of a file id
FileEntries == {FileA, FileB, FileC, FileD}
EntryOf(file_id) == CHOOSE e \in FileEntries : "id-" \o e.key = file_id

\* the call to the repository that comes after the call at place i of the
\* log: made already, or the next to be made
CallAfter(i) ==
    IF i < Len(pub_log) THEN [op |-> pub_log[i + 1].op, file_id |-> pub_log[i + 1].target]
    ELSE IF pc = "publish" /\ pub_todo # <<>> /\ Head(pub_todo).op \in
                {"delete_file_metadata", "upload_file_metadata"}
    THEN [op |-> Head(pub_todo).op, file_id |-> Head(pub_todo).file_id]
    ELSE [op |-> "other", file_id |-> None]

\* C26: the call after the upload of a file with a metadata block is the
\* deletion of the file's metadata when the block's 'replace' entry is absent
\* or true, and the upload of its metadata when the entry is false; no other
\* deletion is made; and the metadata of a file is uploaded only after the
\* file's upload has returned its id, and after the deletion where one is due.
C26_DeleteBeforeUploadMetadata ==
    /\ \A i \in 1..Len(pub_log) :
           (pub_log[i].op = "upload" /\ pub_log[i].answer # None
            /\ EntryOf(pub_log[i].answer).metadata # Nil /\ pc # "error") =>
               CallAfter(i) =
                   [op |-> IF EntryOf(pub_log[i].answer).metadata.replace \in {"absent", "true"}
                           THEN "delete_file_metadata" ELSE "upload_file_metadata",
                    file_id |-> pub_log[i].answer]
    /\ \A i \in 1..Len(pub_log) :
           pub_log[i].op = "delete_file_metadata" =>
               /\ i > 1
               /\ pub_log[i - 1].op = "upload" /\ pub_log[i - 1].answer = pub_log[i].target
               /\ EntryOf(pub_log[i].target).metadata # Nil
               /\ EntryOf(pub_log[i].target).metadata.replace # "false"
    /\ \A i \in 1..Len(pub_log) :
           pub_log[i].op = "upload_file_metadata" =>
               /\ i > 1
               /\ \/ /\ pub_log[i - 1].op = "upload"
                     /\ pub_log[i - 1].answer = pub_log[i].target
                     /\ EntryOf(pub_log[i].target).metadata.replace = "false"
                  \/ /\ pub_log[i - 1].op = "delete_file_metadata"
                     /\ pub_log[i - 1].target = pub_log[i].target
                     /\ pub_log[i - 1].answer = "ok"

\* the three kinds of block have been through: 'replace' absent, false, true
C26_Witness ==
    /\ \E i \in 1..Len(pub_log) :
           pub_log[i].op = "upload_file_metadata" /\ pub_log[i].target = "id-soil"
    /\ \E i \in 1..Len(pub_log) :
           pub_log[i].op = "upload_file_metadata" /\ pub_log[i].target = "id-plots"
    /\ \E i \in 1..Len(pub_log) :
           pub_log[i].op = "delete_file_metadata" /\ pub_log[i].target = "id-mask"

\* the uploads of metadata, by their place in the log
MetadataUploads ==
    { i \in 1..Len(pub_log) :
        pub_log[i].op \in {"upload_file_metadata", "upload_dataset_metadata"} }

\* the key an envelope names its target by
IdKey(op) == IF op = "upload_dataset_metadata" THEN "dataset_id" ELSE "file_id"

\* a payload is an envelope for the target of the call it was sent with
EnvelopeFor(payload, op, target) ==
    /\ {"@context", "content", "agent"} \subseteq DOMAIN payload
    /\ DOMAIN payload \cap {"dataset_id", "file_id"} = {IdKey(op)}
    /\ payload[IdKey(op)] = target

\* prepare_metadata on what it returned
PreparedAgain(payload, op, target) ==
    prepare_metadata(Host, "2.0", "any.jx", payload, target, op = "upload_dataset_metadata")

\* C27 as stated: every metadata sent for a dataset or a file is an envelope
\* for that target, and prepare_metadata leaves it as it is.
C27_EveryPayloadIsEnvelope ==
    \A i \in MetadataUploads :
        /\ EnvelopeFor(pub_log[i].payload, pub_log[i].op, pub_log[i].target)
        /\ PreparedAgain(pub_log[i].payload, pub_log[i].op, pub_log[i].target)
               = pub_log[i].payload

\* the metadata the results descriptor gives for a file
GivenFor(file_id) ==
    LET block == EntryOf(file_id).metadata
    IN  IF "data" \in DOMAIN block THEN block.data ELSE block

\* the metadata the results descriptor of a step gives for the dataset of its
\* container: that of the container, and that of the process
GivenForDataset(s) ==
    LET d == ingested[s].content
        block == d.container.metadata
    IN  { IF "data" \in DOMAIN block THEN block.data ELSE block,
          [ k \in KeysOf(d) \ {"container", "file", "files", "code", "error", "message"}
              |-> d.extra[k] ] }

\* C27 as amended: metadata that has '@context' already is sent as the
\* results descriptor gives it; any other is sent in an envelope for its
\* target, with the given metadata as content; and prepare_metadata leaves
\* what is sent as it is.
C27_EnvelopeUnlessJsonLd ==
    \A i \in MetadataUploads :
        LET payload == pub_log[i].payload
        IN  /\ pub_log[i].op = "upload_file_metadata" =>
                   IF "@context" \in DOMAIN GivenFor(pub_log[i].target)
                   THEN payload = GivenFor(pub_log[i].target)
                   ELSE /\ EnvelopeFor(payload, pub_log[i].op, pub_log[i].target)
                        /\ payload.content = GivenFor(pub_log[i].target)
            /\ pub_log[i].op = "upload_dataset_metadata" =>
                   LET given == GivenForDataset(pub_log[i].step)
                   IN  \/ payload \in { g \in given : "@context" \in DOMAIN g }
                       \/ /\ EnvelopeFor(payload, pub_log[i].op, pub_log[i].target)
                          /\ payload.content \in { g \in given : "@context" \notin DOMAIN g }
            /\ PreparedAgain(payload, pub_log[i].op, pub_log[i].target) = payload

\* metadata has been sent for a dataset, for a file in an envelope, and for a
\* file as it was given
C27_Witness ==
    /\ \E i \in MetadataUploads : pub_log[i].target = "ds-created"
    /\ \E i \in MetadataUploads :
           pub_log[i].target = "id-soil" /\ pub_log[i].payload.content = [soil |-> "loam"]
    /\ \E i \in MetadataUploads :
           pub_log[i].target = "id-plots" /\ "content" \notin DOMAIN pub_log[i].payload

\* the clowder section of the experiment file: the first key of the file
\* that is clowder when case is ignored, or else the first key clowder of the
\* mappings in the file
SectionFound ==
    IF experiment = << >> THEN Nil
    ELSE IF SectionAt(experiment, "clowder") # Nil THEN SectionAt(experiment, "clowder")
    ELSE LET below == PairsBelow(experiment)
             hits == { i \in 1..Len(below) : below[i][1] = "clowder" }
         IN  IF hits = {} THEN Nil
             ELSE below[CHOOSE i \in hits : \A j \in hits : i <= j][2]

\* the text the section gives for a key, or None
Given(name) ==
    IF SectionFound = Nil \/ SectionAt(SectionFound.v, name) = Nil THEN None
    ELSE SectionAt(SectionFound.v, name).text

\* C28: after the reconciliation, the 'password' entry of the workstep
\* metadata is the secured form of the password when the clowder section has
\* one; else the username when it has one; else the space when it has one;
\* and it is absent when the section has none of them or there is no section.
C28_LastWriteWins ==
    pc = "load_results" =>
        IF Given("password") # None THEN SecuredOrRemoved(workstep_metadata.password)
        ELSE IF Given("username") # None THEN workstep_metadata.password = Given("username")
        ELSE IF Given("space") # None THEN workstep_metadata.password = Given("space")
        ELSE workstep_metadata.password = None

\* a section with a space and a username and no password has been through
C28_Witness ==
    /\ pc = "load_results"
    /\ Given("space") = "sp" /\ Given("username") = "u" /\ Given("password") = None
    /\ workstep_metadata.password = "u"

\* the source_list of the call of relocate_files on its own
SourceList ==
    IF rl_resources.kind = "resources" THEN rl_resources.local_paths
    ELSE IF rl_resources.kind = "dir" /\ rl_resources.path \in DOMAIN rl_files.dirs
    THEN ListDir(rl_resources.path, rl_files.dirs[rl_resources.path])
    ELSE <<>>

SourcePaths == { SourceList[i] : i \in DOMAIN SourceList }

\* the experiment descriptor in the staging source: the path of the name that
\* create_env_json found
Descriptors ==
    { f \in SourcePaths : <<Basename(f)>> = rl_env.EXPERIMENT_METADATA_FILENAME }

PlainFile(f) == f \notin DOMAIN rl_files.special

CopiesMade == { rl_return.copies[i] : i \in DOMAIN rl_return.copies }

RelativeWorkingFolder == Join(rl_env.BASE_DIR, rl_env.RELATIVE_WORKING_FOLDER)

\* C29: relocate_files raises for a source that is neither a resource dict nor
\* a directory path.  For a source that is one of them, every plain file of
\* the source other than the experiment descriptor is copied into the data
\* subfolder, no directory is copied, the descriptor is the only file of the
\* source copied to the relative working folder, and the path of that copy is
\* returned.
C29_RelocateCopies ==
    rl_return # Nil =>
        IF rl_resources.kind \notin {"resources", "dir"} THEN rl_return.raised
        ELSE \/ (rl_resources.kind = "dir" /\ rl_resources.path \notin DOMAIN rl_files.dirs)
             \/ /\ \A f \in SourcePaths \ Descriptors :
                      PlainFile(f) =>
                          Copy(f, Join(rl_return.dest_dir, <<Basename(f)>>)) \in CopiesMade
                /\ \A f \in SourcePaths :
                      ~PlainFile(f) => \A c \in CopiesMade : c.src # f
                /\ \A f \in Descriptors :
                      PlainFile(f) =>
                          /\ { c \in CopiesMade :
                                 c.src \in SourcePaths
                                 /\ StartsWith(c.dst, RelativeWorkingFolder)
                                 /\ Len(c.dst) = Len(RelativeWorkingFolder) + 1 }
                             = { Copy(f, Join(RelativeWorkingFolder, <<Basename(f)>>)) }
                          /\ rl_return.experiment_path
                             = Join(RelativeWorkingFolder, <<Basename(f)>>)

====
